---- MODULE Spec2Model ----
(***************************************************************************)
(* City Explorer back end (src/server.js): five express route handlers     *)
(* that serve provider data through a cache kept in a SQL database.        *)
(*                                                                         *)
(* Time is counted in units of 1000 ms (one unit = one second), so that    *)
(* the thirty-day movie timeout stays inside the model checker's integers. *)
(* An optional JavaScript value is a sequence: <<>> is undefined / null /  *)
(* NaN, <<v>> is the value v.                                              *)
(***************************************************************************)
EXTENDS Integers, Sequences, FiniteSets, TLC

\* ---------------------------------------------------------------- bounds
MaxCalls == 2          \* requests received during one run
MaxRecs  == 2          \* records in one provider answer
MaxNow   == 16         \* last clock value explored

Deltas      == {15, 16}            \* clock advances explored
LocationIds == {1, 2}              \* request.query.data.id
Queries     == {"Seattle", ""}      \* request.query.data of /location
Calls       == 1 .. MaxCalls

\* ------------------------------------------------------- program constants
\* app.get(...) routes: the endpoint name each handler puts in sqlInfo
Endpoints == {"locations", "weathers", "events", "movies", "yelps"}

\* the timeouts object literal of checkTimeouts, in seconds
timeouts ==
  [weather |-> 15,
   yelp    |-> 24 * 60 * 60,
   movie   |-> 30 * 60 * 60 * 24,
   event   |-> 6 * 60 * 60,
   trail   |-> 7 * 60 * 60 * 24]

Undefined == <<>>

\* the property read with the endpoint name made singular first
\* ("weathers" reads timeouts.weather)
LookupSingular(obj, name) ==
  LET n == CASE name = "weathers" -> "weather"
             [] name = "events"   -> "event"
             [] name = "movies"   -> "movie"
             [] name = "yelps"    -> "yelp"
             [] OTHER             -> name
  IN  IF n \in DOMAIN obj THEN <<obj[n]>> ELSE Undefined

\* JavaScript property read obj[name]: undefined when the object has no such key
Lookup(obj, name) == IF name \in DOMAIN obj THEN <<obj[name]>> ELSE Undefined

\* JavaScript a > b on numbers: false as soon as one side is NaN / undefined
GreaterThan(a, b) == a # Undefined /\ b # Undefined /\ a[1] > b[1]

\* Date.now() - created_at. A row stored without created_at reads back as
\* SQL NULL (age = now - 0) or without the property (age = NaN), depending on
\* the table definition, which is not part of the program.
AgeOfResults(t, created_at) ==
  IF created_at = Undefined THEN {<<t>>, Undefined} ELSE {<<t - created_at[1]>>}

\* Truthiness of a string, as in `if (sqlInfo.searchQuery)`
Truthy(s) == s # ""

\* --------------------------------------------------------------- data models
\* Weather, Movie and Yelp set created_at = Date.now(); Event and Location do not.
HasCreatedAt(endpoint) == endpoint \in {"weathers", "movies", "yelps"}

\* a summary whose location_id is a fixed id instead of sqlInfo.id
SummaryFixedId(endpoint, rec, id, t) ==
  [key |-> 1, val |-> rec[1],
   created_at |-> IF HasCreatedAt(endpoint) THEN <<t>> ELSE Undefined]

\* a constructor reads into the record it is given (day.summary,
\* event.name.text, movie.overview.slice, location.geometry.location.lat):
\* it throws a TypeError on a record that is null or lacks what it reads
Throws(rec) == rec = Undefined

\* new Weather(day) / Event / Movie / Yelp followed by summary.location_id = id
Summary(endpoint, rec, id, t) ==
  [key |-> id, val |-> rec[1],
   created_at |-> IF HasCreatedAt(endpoint) THEN <<t>> ELSE Undefined]

\* new Location(query, results[0])
Location(query, rec) == [key |-> query, val |-> rec[1], created_at |-> Undefined]

\* ------------------------------------------------------------ SQL statements
\* getDataFromDB with the search_query branch lost: every SELECT is by location_id
getDataFromDBByLocationId(call, endpoint, searchQuery, id) ==
  [op |-> "select", call |-> call, endpoint |-> endpoint,
   condition |-> "location_id", values |-> id,
   row |-> Undefined, returning |-> FALSE, awaited |-> TRUE]

\* getDataFromDB: SELECT * FROM endpoint WHERE condition=$1
getDataFromDB(call, endpoint, searchQuery, id) ==
  [op |-> "select", call |-> call, endpoint |-> endpoint,
   condition |-> IF searchQuery # Undefined /\ Truthy(searchQuery[1])
                 THEN "search_query" ELSE "location_id",
   values |-> IF searchQuery # Undefined /\ Truthy(searchQuery[1])
              THEN searchQuery ELSE id,
   row |-> Undefined, returning |-> FALSE, awaited |-> TRUE]

\* saveDataToDB: INSERT INTO endpoint (columns) VALUES (...) [RETURNING ID]
saveDataToDB(call, endpoint, searchQuery, row, awaited) ==
  [op |-> "insert", call |-> call, endpoint |-> endpoint,
   condition |-> "", values |-> Undefined, row |-> <<row>>,
   returning |-> (searchQuery # Undefined /\ Truthy(searchQuery[1])),
   awaited |-> awaited]

\* the DELETE of checkTimeouts: DELETE FROM endpoint WHERE location_id=$1
DeleteQuery(call, endpoint, id) ==
  [op |-> "delete", call |-> call, endpoint |-> endpoint,
   condition |-> "location_id", values |-> id, row |-> Undefined,
   returning |-> FALSE, awaited |-> FALSE]

\* the column a table keeps its key in
KeyColumn(endpoint) == IF endpoint = "locations" THEN "search_query" ELSE "location_id"

\* WHERE condition=$1 : an SQL equality never matches a NULL parameter
Matches(q, r) ==
  /\ q.condition = KeyColumn(q.endpoint)
  /\ q.values # Undefined
  /\ r.key = q.values[1]

SelectRows(table, q) == LET T(r) == Matches(q, r) IN SelectSeq(table, T)
DeleteRows(table, q) == LET T(r) == ~Matches(q, r) IN SelectSeq(table, T)

\* ------------------------------------------------------------- checkTimeouts
\* checkTimeouts that issues its DELETE whenever there are rows, fresh or not
checkTimeoutsAlwaysDeletes(endpoint, rows, age) ==
  IF Len(rows) > 0
  THEN IF GreaterThan(age, Lookup(timeouts, endpoint))
       THEN [ret |-> Undefined, del |-> TRUE]
       ELSE [ret |-> <<rows>>, del |-> TRUE]
  ELSE [ret |-> Undefined, del |-> FALSE]

\* checkTimeouts that returns the first row alone when the rows are fresh
checkTimeoutsFirstRow(endpoint, rows, age) ==
  IF Len(rows) > 0
  THEN IF GreaterThan(age, Lookup(timeouts, endpoint))
       THEN [ret |-> Undefined, del |-> TRUE]
       ELSE [ret |-> <<<<rows[1]>>>>, del |-> FALSE]
  ELSE [ret |-> Undefined, del |-> FALSE]

\* ret: the value returned (Undefined, or <<rows>> for sqlData);
\* del: whether the DELETE was issued.
checkTimeouts(endpoint, rows, age) ==
  IF Len(rows) > 0
  THEN IF GreaterThan(age, Lookup(timeouts, endpoint))
       THEN [ret |-> Undefined, del |-> TRUE]
       ELSE [ret |-> <<rows>>, del |-> FALSE]
  ELSE [ret |-> Undefined, del |-> FALSE]

\* ------------------------------------------------------------------ responses
NoResponse == [status |-> 0, kind |-> "none", body |-> <<>>]

\* response.send(x): status 200; send(undefined) sends an empty body
Send(kind, body) == [status |-> 200, kind |-> kind, body |-> body]

\* handleError(err, res): the response does not depend on err
handleError(err, res) ==
  IF res THEN [status |-> 500, kind |-> "text",
               body |-> <<"Sorry, something went wrong">>]
         ELSE NoResponse

\* what a handler sends on a cache hit (result = sqlData, truthy)
SendCached(endpoint, rows) ==
  IF endpoint = "movies" THEN Send("empty", <<>>)     \* result.row is undefined
  ELSE Send("rows", rows)                              \* result.rows

\* the records of a provider answer of n records: <<i>> is a record the
\* constructors can read, Undefined one they throw on (the bad-th, if any)
Records(n, bad) == [i \in 1 .. n |-> IF i = bad THEN Undefined ELSE <<i>>]

\* what the runtime does with a promise that rejects and has no rejection
\* handler (--unhandled-rejections): "throw", the default from Node 15 on,
\* raises it as an uncaught exception and the process exits with code 1;
\* "warn", the default up to Node 14, prints a warning and goes on
RejectionModes == {"throw", "warn"}

\* whether the process is still running after an unhandled rejection
SurvivesUnhandledRejection(mode) == mode # "throw"

\* ---------------------------------------------------------------------- state
VARIABLES
  db,       \* db[endpoint]: the rows of the table, in insertion order
  nextId,   \* nextId[endpoint]: the next value of the table's serial id
  queue,    \* the queries client.query has queued, executed in order
  now,      \* Date.now()
  req,      \* req[c]: the c-th request received, the position of its handler
            \* and the history of what it did
  unhandledRejections,  \* the mode of the runtime the server is started on
  running   \* whether the server process is running: once it has exited no
            \* request is received or answered and no queued query is sent

vars == <<db, nextId, queue, now, req, unhandledRejections, running>>

IdleReq ==
  [pc |-> "idle", endpoint |-> "locations", searchQuery |-> Undefined,
   id |-> Undefined, fetches |-> 0, outcome |-> "none", verdict |-> "none",
   rows |-> <<>>, stored |-> <<>>, at |-> Undefined, age |-> <<>>,
   deleteFailed |-> FALSE, recs |-> <<>>,
   fetchedAt |-> Undefined,
   location |-> Undefined, selectFailed |-> FALSE, insertsFailed |-> 0,
   resp |-> NoResponse]

Init ==
  /\ db = [e \in Endpoints |-> <<>>]
  /\ nextId = [e \in Endpoints |-> 1]
  /\ queue = <<>>
  /\ now = 0
  /\ req = [c \in Calls |-> IdleReq]
  /\ unhandledRejections \in RejectionModes
  /\ running = TRUE

\* the key of a request: the search string of /location, the location id of
\* the other routes
KeyOf(r) == IF r.endpoint = "locations" THEN r.searchQuery ELSE r.id

\* the rows a table holds under a key (history only: what the store held when
\* the SELECT of a request ran, whatever the SELECT asked for)
Stored(table, key) ==
  LET T(row) == key # Undefined /\ row.key = key[1] IN SelectSeq(table, T)

\* the call number of the next request
NextCall == CHOOSE c \in Calls \cup {MaxCalls + 1} :
              /\ \A d \in Calls : d < c => req[d].pc # "idle"
              /\ c \in Calls => req[c].pc = "idle"

\* ------------------------------------------------------------------- handlers
\* searchToLatLong up to the call of getDataFromDB
searchToLatLong(c, query) ==
  /\ running
  /\ c = NextCall /\ c \in Calls
  /\ req' = [req EXCEPT ![c] = [IdleReq EXCEPT !.pc = "select",
                                  !.endpoint = "locations",
                                  !.searchQuery = <<query>>]]
  /\ queue' = Append(queue, getDataFromDB(c, "locations", <<query>>, Undefined))
  /\ UNCHANGED <<db, nextId, now, unhandledRejections, running>>

\* getWeather / getEvents / getMovies / getYelp up to the call of getDataFromDB
getByLocation(c, endpoint, id) ==
  /\ running
  /\ c = NextCall /\ c \in Calls
  /\ endpoint # "locations"
  /\ req' = [req EXCEPT ![c] = [IdleReq EXCEPT !.pc = "select",
                                  !.endpoint = endpoint, !.id = <<id>>]]
  /\ queue' = Append(queue, getDataFromDB(c, endpoint, Undefined, <<id>>))
  /\ UNCHANGED <<db, nextId, now, unhandledRejections, running>>

\* superagent.get(url) is issued: one more provider fetch of the call
IssueFetch(r) == [r EXCEPT !.pc = "fetch", !.fetches = r.fetches + 1]

\* the .then callbacks that run when the SELECT of call q.call resolves
AfterSelect(q, rows, age) ==
  LET r  == req[q.call]
      ct == checkTimeouts(q.endpoint, rows, age)
      seen == [r EXCEPT !.rows = rows, !.at = <<now>>,
                        !.age = IF q.endpoint # "locations" /\ Len(rows) > 0
                                THEN <<age>> ELSE <<>>,
                        !.stored = Stored(db[q.endpoint], KeyOf(r))]
  IN
  IF q.endpoint = "locations"
  THEN /\ queue' = Tail(queue)
       /\ req' = [req EXCEPT ![q.call] =
             IF Len(rows) > 0
             THEN [seen EXCEPT !.pc = "done", !.verdict = "hit",
                               !.resp = Send("row", <<rows[1]>>)]
             ELSE IssueFetch([seen EXCEPT !.verdict = "miss"])]
  ELSE /\ queue' = IF ct.del
                   THEN Append(Tail(queue), DeleteQuery(q.call, q.endpoint, r.id))
                   ELSE Tail(queue)
       /\ req' = [req EXCEPT ![q.call] =
             IF ct.ret # Undefined
             THEN [seen EXCEPT !.pc = "done", !.verdict = "hit",
                               !.resp = SendCached(q.endpoint, ct.ret[1])]
             ELSE IssueFetch([seen EXCEPT !.verdict =
                                 IF ct.del THEN "stale" ELSE "miss"])]

\* the .then callback of saveDataToDB in searchToLatLong; the promise of
\* every other saveDataToDB is dropped. Without RETURNING data.rows[0] is
\* undefined: the callback throws a TypeError before response.send, and the
\* promise it rejects has no rejection handler
AfterInsert(q, id) ==
  LET r == req[q.call] IN
  IF q.awaited
  THEN IF q.returning
       THEN /\ req' = [req EXCEPT ![q.call] =
                        [r EXCEPT !.pc = "done",
                                  !.resp = Send("location",
                                      <<[id |-> id, key |-> r.location[1].key,
                                         val |-> r.location[1].val,
                                         created_at |-> Undefined,
                                         by |-> q.call]>>)]]
            /\ UNCHANGED running
       ELSE /\ req' = [req EXCEPT ![q.call] = [r EXCEPT !.pc = "hung"]]
            /\ running' = SurvivesUnhandledRejection(unhandledRejections)
  ELSE UNCHANGED <<req, running>>

\* the database executes the query at the head of the client's queue
DbOk ==
  /\ running
  /\ queue # <<>>
  /\ LET q == Head(queue) IN
     CASE q.op = "select" ->
            /\ LET rows == SelectRows(db[q.endpoint], q) IN
               \E age \in (IF Len(rows) > 0
                           THEN AgeOfResults(now, rows[1].created_at)
                           ELSE {Undefined}) :
                 AfterSelect(q, rows, age)
            /\ UNCHANGED <<db, nextId, running>>
       [] q.op = "insert" ->
            /\ db' = [db EXCEPT ![q.endpoint] =
                        Append(@, [id |-> nextId[q.endpoint],
                                   key |-> q.row[1].key, val |-> q.row[1].val,
                                   created_at |-> q.row[1].created_at,
                                   by |-> q.call])]
            /\ nextId' = [nextId EXCEPT ![q.endpoint] = @ + 1]
            /\ queue' = Tail(queue)
            /\ AfterInsert(q, nextId[q.endpoint])
       [] q.op = "delete" ->
            /\ db' = [db EXCEPT ![q.endpoint] = DeleteRows(@, q)]
            /\ queue' = Tail(queue)
            /\ UNCHANGED <<nextId, req, running>>
  /\ UNCHANGED <<now, unhandledRejections>>

\* a failed INSERT that is recovered from: the rows the same request has
\* already stored are removed
DbFailRollsBack ==
  /\ running
  /\ queue # <<>>
  /\ LET q == Head(queue)
         r == req[q.call]
         noted == [r EXCEPT !.selectFailed = (q.op = "select") \/ @,
                            !.deleteFailed = (q.op = "delete") \/ @,
                            !.insertsFailed = IF q.op = "insert" THEN @ + 1 ELSE @]
         T(row) == ~(q.op = "insert" /\ row.by = q.call)
     IN
       /\ req' = [req EXCEPT ![q.call] =
                    IF q.awaited THEN [noted EXCEPT !.pc = "hung"] ELSE noted]
       /\ db' = [db EXCEPT ![q.endpoint] = SelectSeq(@, T)]
       /\ running' = IF q.op = "delete" THEN running
                     ELSE SurvivesUnhandledRejection(unhandledRejections)
  /\ queue' = Tail(queue)
  /\ UNCHANGED <<nextId, now, unhandledRejections>>

\* a failed INSERT that is cleaned up after: every row under the key of the
\* request is deleted
DbFailClearsKey ==
  /\ running
  /\ queue # <<>>
  /\ LET q == Head(queue)
         r == req[q.call]
         noted == [r EXCEPT !.selectFailed = (q.op = "select") \/ @,
                            !.deleteFailed = (q.op = "delete") \/ @,
                            !.insertsFailed = IF q.op = "insert" THEN @ + 1 ELSE @]
         T(row) == ~(q.op = "insert" /\ row.key = KeyOf(r)[1])
     IN
       /\ req' = [req EXCEPT ![q.call] =
                    IF q.awaited THEN [noted EXCEPT !.pc = "hung"] ELSE noted]
       /\ db' = [db EXCEPT ![q.endpoint] = SelectSeq(@, T)]
       /\ running' = IF q.op = "delete" THEN running
                     ELSE SurvivesUnhandledRejection(unhandledRejections)
  /\ queue' = Tail(queue)
  /\ UNCHANGED <<nextId, now, unhandledRejections>>

\* the query at the head of the queue fails: client.query rejects
DbFail ==
  /\ running
  /\ queue # <<>>
  /\ LET q == Head(queue)
         r == req[q.call]
         noted == [r EXCEPT !.selectFailed = (q.op = "select") \/ @,
                            !.deleteFailed = (q.op = "delete") \/ @,
                            !.insertsFailed = IF q.op = "insert" THEN @ + 1 ELSE @]
     IN
       \* the request that waits for the query gets no response
       /\ req' = [req EXCEPT ![q.call] =
                    IF q.awaited THEN [noted EXCEPT !.pc = "hung"] ELSE noted]
       \* only the DELETE of checkTimeouts has a .catch: the rejection of a
       \* SELECT or of an INSERT, awaited or dropped, is unhandled
       /\ running' = IF q.op = "delete" THEN running
                     ELSE SurvivesUnhandledRejection(unhandledRejections)
  /\ queue' = Tail(queue)
  /\ UNCHANGED <<db, nextId, now, unhandledRejections>>

\* the .map callback with saveDataToDB moved after the loop: only the last
\* summary is saved
SaveLast(c, endpoint, searchQuery, summaries) ==
  IF summaries = <<>> THEN <<>>
  ELSE <<saveDataToDB(c, endpoint, searchQuery, summaries[Len(summaries)], FALSE)>>

\* the .map callback behind a per-key guard: nothing is saved when another
\* request has already fetched for the same key
SaveAllOnce(c, endpoint, searchQuery, summaries) ==
  IF \E d \in Calls \ {c} :
       /\ req[d].outcome = "ok"
       /\ req[d].endpoint = endpoint
       /\ req[d].id = req[c].id
  THEN <<>>
  ELSE [i \in 1 .. Len(summaries) |->
          saveDataToDB(c, endpoint, searchQuery, summaries[i], FALSE)]

\* the body of the .map callback of getWeather / getEvents / getMovies /
\* getYelp: saveDataToDB(sqlInfo) is called once for every summary
SaveAll(c, endpoint, searchQuery, summaries) ==
  [i \in 1 .. Len(summaries) |->
     saveDataToDB(c, endpoint, searchQuery, summaries[i], FALSE)]

\* superagent.get resolves with n >= 1 records, the bad-th of which (if
\* bad # 0) is one the constructor throws on. /location builds a Location of
\* results[0] only; the other handlers build and save one summary after the
\* other inside .map, so the summaries before the bad record are saved when
\* the constructor throws, and .catch answers with handleError
FetchOk(c, n, bad) ==
  /\ running
  /\ req[c].pc = "fetch"
  /\ LET r == req[c]
         recs == Records(n, bad)
         got == [r EXCEPT !.recs = recs, !.fetchedAt = <<now>>]
     IN
     IF r.endpoint = "locations"
     THEN IF Throws(recs[1])
          THEN /\ queue' = queue
               /\ req' = [req EXCEPT ![c] =
                            [got EXCEPT !.pc = "done", !.outcome = "malformed",
                                        !.resp = handleError("TypeError", TRUE)]]
          ELSE LET location == Location(r.searchQuery[1], recs[1]) IN
               /\ queue' = Append(queue, saveDataToDB(c, r.endpoint,
                                                      r.searchQuery, location, TRUE))
               /\ req' = [req EXCEPT ![c] = [got EXCEPT !.pc = "save",
                                               !.outcome = "ok",
                                               !.location = <<location>>]]
     ELSE LET built == IF bad = 0 THEN n ELSE bad - 1
              summaries == [i \in 1 .. built |->
                              Summary(r.endpoint, recs[i], r.id[1], now)]
          IN
          /\ queue' = queue \o SaveAll(c, r.endpoint, r.searchQuery, summaries)
          /\ req' = [req EXCEPT ![c] =
                       IF bad = 0
                       THEN [got EXCEPT !.pc = "done", !.outcome = "ok",
                                        !.resp = Send("summaries", summaries)]
                       ELSE [got EXCEPT !.pc = "done", !.outcome = "malformed",
                                        !.resp = handleError("TypeError", TRUE)]]
  /\ UNCHANGED <<db, nextId, now, unhandledRejections, running>>

\* superagent.get resolves with an empty list: throw 'NO DATA'
FetchEmpty(c) ==
  /\ running
  /\ req[c].pc = "fetch"
  /\ req' = [req EXCEPT ![c].pc = "done", ![c].outcome = "empty",
                        ![c].resp = handleError("NO DATA", TRUE)]
  /\ UNCHANGED <<db, nextId, queue, now, unhandledRejections, running>>

\* a failed fetch that is retried: superagent.get is issued again
FetchFailRetries(c) ==
  /\ running
  /\ req[c].pc = "fetch"
  /\ req' = [req EXCEPT ![c] = IssueFetch(@)]
  /\ UNCHANGED <<db, nextId, queue, now, unhandledRejections, running>>

\* a failed fetch whose handler saves a row all the same
FetchFailSaves(c) ==
  /\ running
  /\ req[c].pc = "fetch"
  /\ req' = [req EXCEPT ![c].pc = "done", ![c].outcome = "error",
                        ![c].resp = handleError("request failed", TRUE)]
  /\ queue' = Append(queue,
                 saveDataToDB(c, req[c].endpoint, req[c].searchQuery,
                              [key |-> KeyOf(req[c])[1], val |-> 0,
                               created_at |-> <<now>>], FALSE))
  /\ UNCHANGED <<db, nextId, now, unhandledRejections, running>>

\* superagent.get rejects
FetchFail(c) ==
  /\ running
  /\ req[c].pc = "fetch"
  /\ req' = [req EXCEPT ![c].pc = "done", ![c].outcome = "error",
                        ![c].resp = handleError("request failed", TRUE)]
  /\ UNCHANGED <<db, nextId, queue, now, unhandledRejections, running>>

\* time passes
Tick(d) ==
  /\ now + d <= MaxNow
  /\ now' = now + d
  /\ UNCHANGED <<db, nextId, queue, req, unhandledRejections, running>>

Next ==
  \/ \E c \in Calls, s \in Queries : searchToLatLong(c, s)
  \/ \E c \in Calls, e \in Endpoints, i \in LocationIds : getByLocation(c, e, i)
  \/ DbOk
  \/ DbFail
  \/ \E c \in Calls, n \in 1 .. MaxRecs : \E bad \in 0 .. n : FetchOk(c, n, bad)
  \/ \E c \in Calls : FetchEmpty(c)
  \/ \E c \in Calls : FetchFail(c)
  \/ \E d \in Deltas : Tick(d)

Spec == Init /\ [][Next]_vars

\* ------------------------------------------------------- vocabulary of claims
TtlGoverned == {"weathers", "events", "movies", "yelps"}

\* the resource a timeouts entry is meant for ("the names are singular")
Singular(endpoint) ==
  CASE endpoint = "weathers" -> "weather"
    [] endpoint = "events"   -> "event"
    [] endpoint = "movies"   -> "movie"
    [] endpoint = "yelps"    -> "yelp"
    [] OTHER                 -> endpoint

\* the time-to-live the table intends for an endpoint
PolicyTtl(endpoint) == timeouts[Singular(endpoint)]

RowsBy(c) == LET T(row) == row.by = c IN SelectSeq(db[req[c].endpoint], T)
Pending(c) == {i \in 1 .. Len(queue) : queue[i].call = c}
PendingInserts(c) == {i \in Pending(c) : queue[i].op = "insert"}
Vals(rows) == [i \in 1 .. Len(rows) |-> rows[i].val]
Range(f) == {f[i] : i \in DOMAIN f}

\* the SELECT of call c has run and answered
Looked(c) == req[c].pc \notin {"idle", "select"} /\ ~req[c].selectFailed

\* the rows under the key of call c, now
KeyRows(c) == Stored(db[req[c].endpoint], KeyOf(req[c]))

\* the rows of a table that are under another key
OtherRows(table, key) ==
  LET T(row) == key = Undefined \/ row.key # key[1] IN SelectSeq(table, T)

\* the records the provider answer is normalized to: /location keeps results[0]
Normalized(r) ==
  IF r.endpoint = "locations" THEN <<r.recs[1][1]>>
  ELSE [i \in 1 .. Len(r.recs) |-> r.recs[i][1]]

\* the number of records saveDataToDB was called for by request r
Saved(r) ==
  CASE r.outcome = "ok" -> Len(Normalized(r))
    [] r.outcome = "malformed" /\ r.endpoint # "locations" ->
         (CHOOSE i \in 1 .. Len(r.recs) : Throws(r.recs[i])) - 1
    [] OTHER -> 0

\* no other request has got records for the same key of the same resource
Alone(c) ==
  \A d \in Calls \ {c} :
    ~(/\ req[d].outcome \in {"ok", "malformed"}
      /\ req[d].endpoint = req[c].endpoint
      /\ KeyOf(req[d]) = KeyOf(req[c]))

\* the age of the first stored row when call c looked, if it has one
AgeSeen(c) == req[c].at[1] - req[c].stored[1].created_at[1]
HasAge(c) ==
  /\ Looked(c)
  /\ req[c].endpoint \in TtlGoverned
  /\ Len(req[c].stored) > 0
  /\ req[c].stored[1].created_at # Undefined

\* ----------------------------------------------------------------------- C1
\* C1: a request for a TTL-governed resource that finds rows older than the
\* resource's TTL evicts them (none of them is in the store once the request
\* and its queries are over) and performs exactly one provider fetch.
C1_StaleRowsEvictedAndRefetched ==
  \A c \in Calls :
    (HasAge(c) /\ AgeSeen(c) > PolicyTtl(req[c].endpoint)
       /\ req[c].pc = "done" /\ Pending(c) = {})
    => /\ req[c].fetches = 1
       /\ \A i \in 1 .. Len(req[c].stored) :
            req[c].stored[i] \notin Range(db[req[c].endpoint])

\* ----------------------------------------------------------------------- C2
\* C2: a request that finds rows under its key that are within the TTL (any
\* rows, for the non-empty search string of a location) performs no provider
\* fetch and answers 200 with exactly those rows (the first of them, for
\* locations).
C2_HitReturnsPersistedRows ==
  \A c \in Calls :
    (/\ Looked(c)
     /\ Len(req[c].stored) > 0
     /\ (req[c].endpoint = "locations" => Truthy(req[c].searchQuery[1]))
     /\ (HasAge(c) => AgeSeen(c) <= PolicyTtl(req[c].endpoint)))
    => /\ req[c].fetches = 0
       /\ req[c].resp.status = 200
       /\ req[c].resp.body = IF req[c].endpoint = "locations"
                             THEN <<req[c].stored[1]>> ELSE req[c].stored

\* ----------------------------------------------------------------------- C3
\* C3: a request that finds no row under its key performs exactly one
\* provider fetch; once its INSERTs have all run and succeeded, and no other
\* request fetched for the same key, the store holds under that key one row
\* per record of the answer, in order, and nothing else.
C3_ColdMissPersistsExactlyTheRecords ==
  \A c \in Calls :
    (Looked(c) /\ Len(req[c].rows) = 0)
    => /\ req[c].fetches = 1
       /\ Len(RowsBy(c)) + Cardinality(PendingInserts(c)) + req[c].insertsFailed
            = Saved(req[c])
       /\ (/\ req[c].outcome = "ok"
           /\ Pending(c) = {}
           /\ req[c].insertsFailed = 0
           /\ Alone(c))
          => Vals(KeyRows(c)) = Normalized(req[c])

C3_Witness ==
  \E c \in Calls :
    /\ req[c].endpoint = "weathers" /\ Looked(c) /\ Len(req[c].rows) = 0
    /\ req[c].outcome = "ok" /\ Len(req[c].recs) = MaxRecs
    /\ Pending(c) = {} /\ req[c].insertsFailed = 0 /\ Alone(c)
    /\ Len(KeyRows(c)) = MaxRecs

\* ----------------------------------------------------------------------- C4
\* C4: the endpoint of every request that reaches checkTimeouts has a
\* positive entry in the timeouts table.
C4_EveryServedEndpointHasTtl ==
  \A c \in Calls :
    (Looked(c) /\ req[c].endpoint \in TtlGoverned)
    => /\ Lookup(timeouts, req[c].endpoint) # Undefined
       /\ Lookup(timeouts, req[c].endpoint)[1] > 0

\* ----------------------------------------------------------------------- C5
\* C5: the verdict follows the age of the first stored row: an age up to and
\* including the TTL is a hit, an age beyond the TTL is stale.
C5_InclusiveTtlBoundary ==
  \A c \in Calls :
    HasAge(c)
    => /\ AgeSeen(c) <= PolicyTtl(req[c].endpoint) => req[c].verdict = "hit"
       /\ AgeSeen(c) > PolicyTtl(req[c].endpoint) => req[c].verdict = "stale"

\* ----------------------------------------------------------------------- C6
\* C6: a request whose provider fetch answered nothing or failed has issued
\* no INSERT: no row of the store and no queued INSERT is its own.
C6_FailedFetchWritesNothing ==
  \A c \in Calls :
    req[c].outcome \in {"empty", "error"}
    => /\ RowsBy(c) = <<>>
       /\ PendingInserts(c) = {}

C6_Witness ==
  \E c, d \in Calls :
    /\ req[c].outcome = "empty" /\ req[c].pc = "done"
    /\ req[d].outcome = "error" /\ req[d].pc = "done"

\* ----------------------------------------------------------------------- C7
\* C7: the response to an empty provider answer differs from the response
\* to a failed provider fetch.
C7_NoDataDistinctFromUpstreamError ==
  \A c, d \in Calls :
    (req[c].outcome = "empty" /\ req[d].outcome = "error")
    => req[c].resp # req[d].resp

\* ----------------------------------------------------------------------- C8
\* C8: a request one of whose store queries (SELECT or INSERT) failed is not
\* answered 200 and is not left without a response.
C8_StoreFailureSurfaced ==
  \A c \in Calls :
    (req[c].selectFailed \/ req[c].insertsFailed > 0)
    => /\ req[c].resp.status # 200
       /\ req[c].pc # "hung"

\* ----------------------------------------------------------------------- C9
\* C9: a request issues at most one provider fetch; after a failed or empty
\* fetch it is over, with that one fetch.
C9_AtMostOneFetch ==
  \A c \in Calls :
    /\ req[c].fetches <= 1
    /\ req[c].outcome # "none" => req[c].fetches = 1 /\ req[c].pc # "fetch"
    /\ req[c].verdict = "hit" => req[c].fetches = 0

C9_Witness ==
  \E c, d \in Calls :
    /\ req[c].outcome = "error" /\ req[c].pc = "done" /\ req[c].fetches = 1
    /\ req[d].outcome = "ok" /\ req[d].fetches = 1

\* ---------------------------------------------------------------------- C10
\* C10: for a non-empty search string, a /location request that finds no
\* row and gets a geocoder answer inserts exactly one row, keyed by the
\* string and holding results[0]; a /location request that finds rows
\* under its string is answered with the first of them, without a fetch,
\* however old the row is.
C10_LocationCachedBySearchString ==
  \A c \in Calls :
    (req[c].endpoint = "locations" /\ Looked(c) /\ Truthy(req[c].searchQuery[1]))
    => /\ (Len(req[c].stored) = 0 /\ req[c].outcome = "ok")
          => /\ Len(RowsBy(c)) + Cardinality(PendingInserts(c))
                  + req[c].insertsFailed = 1
             /\ \A i \in 1 .. Len(RowsBy(c)) :
                  /\ RowsBy(c)[i].key = req[c].searchQuery[1]
                  /\ RowsBy(c)[i].val = req[c].recs[1][1]
       /\ Len(req[c].stored) > 0
          => /\ req[c].verdict = "hit"
             /\ req[c].fetches = 0
             /\ req[c].resp = Send("row", <<req[c].stored[1]>>)
             /\ req[c].stored[1] \in Range(db["locations"])

C10_Witness ==
  \E c, d \in Calls :
    /\ req[c].endpoint = "locations" /\ req[c].searchQuery = <<"Seattle">>
    /\ Len(req[c].stored) = 0 /\ req[c].outcome = "ok"
    /\ Len(RowsBy(c)) = 1 /\ KeyRows(c) = RowsBy(c)
    /\ req[d].endpoint = "locations" /\ req[d].searchQuery = <<"Seattle">>
    /\ req[d].verdict = "hit" /\ req[d].fetches = 0
    /\ req[d].resp.body = RowsBy(c)
    /\ req[d].at[1] > req[c].fetchedAt[1]

\* ---------------------------------------------------------------------- C11
\* C11: a request answered 200 after a provider fetch is answered only after
\* all its INSERTs have been performed: none of them is still queued and
\* every record of the answer is a row of the store.
C11_MissAnsweredAfterInserts ==
  \A c \in Calls :
    (req[c].outcome = "ok" /\ req[c].resp.status = 200)
    => /\ PendingInserts(c) = {}
       /\ Len(RowsBy(c)) = Len(Normalized(req[c]))

\* ---------------------------------------------------------------------- C12
\* C12: several rows under one key are one freshness unit. checkTimeouts
\* computes one age, from the created_at of the first row; its verdict is for
\* the whole set: a hit returns every row found, a stale verdict returns none
\* and issues the DELETE; and that DELETE is by location_id, so that, run on
\* the table, it leaves no row under the key and every other row in place.
C12_RowsOfAKeyAreOneFreshnessUnit ==
  \A c \in Calls :
    (Looked(c) /\ req[c].endpoint \in TtlGoverned /\ Len(req[c].stored) > 1)
    => LET r   == req[c]
           ct  == checkTimeouts(r.endpoint, r.rows, r.age[1])
           del == DeleteQuery(c, r.endpoint, r.id)
       IN  /\ r.rows = r.stored
           /\ Len(r.age) = 1
           /\ r.age[1] \in AgeOfResults(r.at[1], r.stored[1].created_at)
           /\ r.verdict \in {"hit", "stale"}
           /\ r.verdict = "hit"
              => ct.ret = <<r.stored>> /\ ~ct.del /\ r.fetches = 0
           /\ r.verdict = "stale"
              => /\ ct.ret = Undefined /\ ct.del
                 /\ r.resp.kind \notin {"rows", "empty"}
           /\ Stored(DeleteRows(db[r.endpoint], del), r.id) = <<>>
           /\ OtherRows(DeleteRows(db[r.endpoint], del), r.id)
                = OtherRows(db[r.endpoint], r.id)

C12_Witness ==
  \E c \in Calls :
    /\ req[c].endpoint = "weathers" /\ Looked(c)
    /\ Len(req[c].stored) = 2 /\ req[c].rows = req[c].stored
    /\ req[c].age = << <<15>> >>
    /\ req[c].verdict = "hit"
    /\ KeyRows(c) = req[c].stored
    /\ Len(db["weathers"]) = 2

\* ---------------------------------------------------------------------- C13
\* C13: two requests for the same key of the same resource that both found
\* no row both fetch and both insert: once their INSERTs have run and
\* succeeded the store holds the records of both under the key. No lock or
\* de-duplication keeps the second set out.
SameKey(c, d) ==
  /\ req[c].pc # "idle" /\ req[d].pc # "idle"
  /\ req[c].endpoint = req[d].endpoint
  /\ KeyOf(req[c]) = KeyOf(req[d])

Settled(c) ==
  req[c].outcome = "ok" /\ Pending(c) = {} /\ req[c].insertsFailed = 0

C13_ConcurrentMissesDuplicate ==
  \A c, d \in Calls :
    (/\ c # d /\ SameKey(c, d)
     /\ Looked(c) /\ Len(req[c].rows) = 0 /\ Settled(c)
     /\ Looked(d) /\ Len(req[d].rows) = 0 /\ Settled(d))
    => /\ req[c].fetches = 1 /\ req[d].fetches = 1
       /\ Len(RowsBy(c)) = Len(Normalized(req[c]))
       /\ Len(RowsBy(d)) = Len(Normalized(req[d]))
       /\ Len(KeyRows(c)) >= Len(RowsBy(c)) + Len(RowsBy(d))

C13_Witness ==
  \E c, d \in Calls :
    /\ c # d /\ SameKey(c, d) /\ req[c].endpoint = "weathers"
    /\ Looked(c) /\ Len(req[c].stored) = 0 /\ Settled(c)
    /\ Looked(d) /\ Len(req[d].stored) = 0 /\ Settled(d)
    /\ \E i, j \in 1 .. Len(KeyRows(c)) :
         /\ KeyRows(c)[i].by = c /\ KeyRows(c)[j].by = d
         /\ KeyRows(c)[i].val = KeyRows(c)[j].val

\* ---------------------------------------------------------------------- C14
\* C14: a request whose eviction DELETE failed was judged stale, made its one
\* provider fetch and is answered from the provider (200 with the summaries
\* when the fetch gave records), never from the rows it found; and a request
\* that later finds one of those rows, older than the TTL, judges it stale.
C14_DeleteFailureNotPropagated ==
  \A c \in Calls :
    req[c].deleteFailed
    => /\ req[c].verdict = "stale"
       /\ req[c].fetches = 1
       /\ req[c].resp.kind \notin {"rows", "empty"}
       /\ (req[c].outcome = "ok" /\ req[c].pc = "done")
          => req[c].resp.status = 200 /\ req[c].resp.kind = "summaries"
       /\ \A d \in Calls \ {c} :
            (/\ SameKey(c, d) /\ HasAge(d)
             /\ req[d].stored[1] \in Range(req[c].stored)
             /\ AgeSeen(d) > PolicyTtl(req[d].endpoint))
            => req[d].verdict = "stale"

\* a request whose DELETE failed has got its records and its 200
C14_DeleteFailed ==
  \E c \in Calls :
    /\ req[c].deleteFailed /\ req[c].outcome = "ok"
    /\ req[c].resp.status = 200

\* ---------------------------------------------------------------------- C15
\* C15: a step changes a table only by running a query of a request for that
\* table, and leaves every row stored under another key than that request's
\* as it was; the other tables are unchanged.
C15_OnlyOwnKeyTouched ==
  [][\A e \in Endpoints :
       db'[e] # db[e]
       => /\ queue # <<>>
          /\ Head(queue).endpoint = e
          /\ req[Head(queue).call].endpoint = e
          /\ OtherRows(db'[e], KeyOf(req[Head(queue).call]))
               = OtherRows(db[e], KeyOf(req[Head(queue).call]))]_vars

C15_Witness ==
  \E c, d \in Calls :
    /\ req[c].endpoint = "weathers" /\ req[d].endpoint = "weathers"
    /\ req[c].id # req[d].id
    /\ Settled(c) /\ Settled(d)
    /\ KeyRows(c) = RowsBy(c) /\ Vals(KeyRows(c)) = Normalized(req[c])
    /\ KeyRows(d) = RowsBy(d) /\ Vals(KeyRows(d)) = Normalized(req[d])

\* ---------------------------------------------------------------------- C16
\* C16: a request whose verdict is a hit makes no provider fetch and issues
\* no INSERT and no DELETE: no row and no queued query is its own, and the
\* rows it found are still in the store.
C16_HitLeavesStoreUnchanged ==
  \A c \in Calls :
    req[c].verdict = "hit"
    => /\ req[c].fetches = 0 /\ req[c].outcome = "none"
       /\ RowsBy(c) = <<>>
       /\ Pending(c) = {}
       /\ \A i \in 1 .. Len(req[c].stored) :
            req[c].stored[i] \in Range(db[req[c].endpoint])

C16_Witness ==
  \E c \in Calls :
    /\ req[c].verdict = "hit" /\ req[c].endpoint = "weathers"
    /\ Len(req[c].stored) > 1
    /\ KeyRows(c) = req[c].stored
    /\ req[c].resp = Send("rows", req[c].stored)

\* ---------------------------------------------------------------------- C17
\* C17: when INSERTs of a request fail, the rows of its other INSERTs stay:
\* every record whose INSERT did not fail is stored or still queued; and a
\* request that finds such a partial set within the TTL is a hit, without a
\* fetch.
C17_PartialWritesStayAndAreServed ==
  \A c \in Calls :
    (req[c].outcome = "ok" /\ req[c].insertsFailed > 0)
    => /\ Len(RowsBy(c)) + Cardinality(PendingInserts(c))
            = Len(Normalized(req[c])) - req[c].insertsFailed
       /\ \A d \in Calls \ {c} :
            (/\ SameKey(c, d) /\ Looked(d)
             /\ \E i \in 1 .. Len(req[d].stored) : req[d].stored[i].by = c
             /\ (HasAge(d) => AgeSeen(d) <= PolicyTtl(req[d].endpoint)))
            => /\ req[d].verdict = "hit"
               /\ req[d].fetches = 0
               /\ req[d].rows = req[d].stored

C17_Witness ==
  \E c, d \in Calls :
    /\ c # d /\ SameKey(c, d) /\ req[c].endpoint = "weathers"
    /\ req[c].outcome = "ok" /\ Len(req[c].recs) = 2
    /\ req[c].insertsFailed = 1 /\ Pending(c) = {}
    /\ Vals(RowsBy(c)) = <<req[c].recs[1][1]>>
    /\ req[d].verdict = "hit" /\ req[d].stored = RowsBy(c)
    /\ req[d].resp = Send("rows", RowsBy(c))

\* ---------------------------------------------------------------------- C18
\* C18: no step removes from the store a row that is within its TTL (a row
\* without created_at counts as within it): in particular no DELETE issued
\* by one request removes what another request has just inserted.
WithinTtl(e, row) ==
  e \in TtlGoverned /\ row.created_at # Undefined
  => now - row.created_at[1] <= PolicyTtl(e)

C18_FreshRowsNeverRemoved ==
  [][\A e \in Endpoints : \A i \in 1 .. Len(db[e]) :
       WithinTtl(e, db[e][i]) => db[e][i] \in Range(db'[e])]_vars

\* the DELETE of checkTimeouts is never issued
C18_DeleteNeverIssued ==
  \A i \in 1 .. Len(queue) : queue[i].op # "delete"

\* ---------------------------------------------------------------------- C19
\* C19: every row stored for a TTL-governed resource has a created_at, equal
\* to the time of the fetch of the request that inserted it, so its age is a
\* number and is not negative.
C19_RowsCarryFetchTime ==
  \A e \in TtlGoverned : \A i \in 1 .. Len(db[e]) :
    /\ db[e][i].created_at # Undefined
    /\ db[e][i].created_at = req[db[e][i].by].fetchedAt
    /\ now - db[e][i].created_at[1] >= 0

\* ---------------------------------------------------------------------- C20
\* C20: no step removes or changes a row of the locations table (the table
\* only grows), and a /location request whose SELECT runs while a row is
\* stored under its non-empty search string is a hit without a fetch,
\* whatever the time.
SelectRuns(c) == req[c].pc = "select" /\ req'[c].pc \notin {"select", "hung"}

C20_LocationsNeverDeleted ==
  [][/\ Len(db'["locations"]) >= Len(db["locations"])
     /\ \A i \in 1 .. Len(db["locations"]) :
          db'["locations"][i] = db["locations"][i]
     /\ \A c \in Calls :
          (/\ SelectRuns(c)
           /\ req[c].endpoint = "locations"
           /\ Truthy(req[c].searchQuery[1])
           /\ Len(Stored(db["locations"], req[c].searchQuery)) > 0)
          => /\ req'[c].verdict = "hit"
             /\ req'[c].fetches = 0
             /\ req'[c].resp.body
                  = <<Stored(db["locations"], req[c].searchQuery)[1]>>]_vars

C20_Witness ==
  \E c, d \in Calls :
    /\ req[c].endpoint = "locations" /\ req[d].endpoint = "locations"
    /\ Looked(c) /\ Looked(d)
    /\ Truthy(req[c].searchQuery[1]) /\ req[d].searchQuery = req[c].searchQuery
    /\ Len(RowsBy(c)) = 1
    /\ req[d].verdict = "hit"
    /\ req[d].at[1] - req[c].fetchedAt[1] > timeouts.weather
    /\ RowsBy(c)[1] \in Range(db["locations"])
    /\ now = req[d].at[1]

====
